---- MODULE Spec2Model ----
(***************************************************************************)
(* Resilient background-execution core of office-manager-api:              *)
(*   - app/core/circuit_breaker.py   (CircuitBreaker, per-service state)   *)
(*   - app/services/reminder_tasks.py (periodic sweep, notification task,  *)
(*     audit-log idempotency records)                                      *)
(* The specifications share the module's variables: SpecBreaker drives the *)
(* circuit breaker with concurrent callers and a clock; SpecReminder       *)
(* drives the reminder sweep and the notification workers over the audit   *)
(* log; SpecRetry, SpecLost, SpecRetention and SpecDirect add database     *)
(* errors, lost workers, the audit-log cleanup and direct calls to it.     *)
(* SpecPolicy and SpecBackoff cover the retry policy of the task           *)
(* decorator, SpecLive the reminder tasks under fair scheduling,            *)
(* SpecHttp the shared HTTP client (app/core/http_client.py), and          *)
(* SpecOffice the appointment reminders (app/services/reminder_service.py).*)
(***************************************************************************)
EXTENDS Integers, Sequences, FiniteSets, Bags, TLC

VARIABLES
    now,              \* wall clock (time.time() / datetime.utcnow()), in seconds
    circuit_breaker,  \* the CircuitBreaker instance: its four dicts
    inflight,         \* caller -> service whose wrapped function it is awaiting
    admitted_in,      \* caller -> state its call left the gate in (observer)
    invoked,          \* service -> number of invocations of the wrapped function
    streak,           \* service -> failed outcomes in a row (observer, not program state)
    event,            \* what the last step of the breaker did, and the state it found
    tasks,            \* the tasks table: task id -> row (read-only to the core)
    audit_logs,       \* the audit_logs table: bag of rows
    queue,            \* the broker: bag of messages waiting for a worker
    worker,           \* worker -> the task it runs, its position and its locals
    dead,             \* messages whose task failed with its retries exhausted
    sends,            \* key -> invocations of send_email / send_sms (observer)
    delivered,        \* keys for which a channel send returned status "sent" (observer)
    sweeps,           \* sweeps the beat has scheduled so far
    db_errors,        \* database errors raised in task bodies so far
    workers_lost,     \* workers lost while running a task so far
    direct_calls,     \* calls of send_reminder_notification.delay without a key
    decision,         \* what autoretry last did with an exception of a task body
    api,              \* the APIClient and the request it is carrying out
    office            \* appointments and the run of ReminderService over them

breakerVars == <<circuit_breaker, inflight, admitted_in, invoked, streak, event>>
envVars == <<db_errors, workers_lost, direct_calls, decision, api, office>>
reminderVars == <<tasks, audit_logs, queue, worker, dead, sends, delivered, sweeps,
                  db_errors, workers_lost, direct_calls, decision, api, office>>
vars == <<now, circuit_breaker, inflight, admitted_in, invoked, streak, event,
          tasks, audit_logs, queue, worker, dead, sends, delivered, sweeps,
          db_errors, workers_lost, direct_calls, decision, api, office>>

-----------------------------------------------------------------------------
(* Python dicts: functions on the set of keys present.                     *)

Get(d, k, default) == IF k \in DOMAIN d THEN d[k] ELSE default
Put(d, k, v) == [x \in (DOMAIN d) \cup {k} |-> IF x = k THEN v ELSE d[x]]
Pop(d, k) == [x \in (DOMAIN d) \ {k} |-> d[x]]
EmptyDict == << >>

\* no exception has reached autoretry yet
NoDecision == [action |-> "none"]

\* APIClient.__init__, and the state of the request the client carries out:
\* no request yet
NewClient(max_attempts) ==
    [max_attempts |-> max_attempts, pc |-> "idle", attempt_number |-> 0,
     call_count |-> 0, history |-> << >>, returned |-> "None", raised |-> "None",
     slept |-> 0, requests |-> 0]

\* http_client = APIClient()
http_client == NewClient(3)

\* no appointments, and ReminderService.process_all_reminders not running
NoRun == [pc |-> "idle"]
NoOffice ==
    [appointments |-> EmptyDict, run |-> NoRun, runs |-> 0, calls |-> 0,
     last |-> [result |-> "None"], invocations |-> EmptyDict, successes |-> EmptyDict]

-----------------------------------------------------------------------------
(* Circuit breaker: app/core/circuit_breaker.py                            *)

\* constructor parameters (failure_threshold, recovery_timeout,
\* half_open_success_threshold): the breaker of the test fixture, with the
\* recovery timeout of the global instance
failure_threshold == 3
recovery_timeout == 60
half_open_success_threshold == 2

\* bounds of the breaker model
MaxCalls == 5     \* invocations of wrapped functions, all services together
MaxTime == 120    \* the clock stops here
TickStep == 30    \* granularity of the clock

Services == {"service_a", "service_b"}
Callers == {"c1", "c2"}
NoService == "-"

\* CircuitBreaker.__init__: four empty dicts
NewBreaker ==
    [failures |-> EmptyDict, last_failure |-> EmptyDict,
     successes |-> EmptyDict, state |-> EmptyDict]

\* _is_open with the recovery test written "elapsed > recovery_timeout"
is_open_late(self, service_name, t) ==
    IF service_name \notin DOMAIN self.state
    THEN [ret |-> FALSE, self |-> self]
    ELSE IF self.state[service_name] = "open"
         THEN IF /\ service_name \in DOMAIN self.last_failure
                 /\ t - self.last_failure[service_name] > recovery_timeout
              THEN [ret |-> FALSE,
                    self |-> [self EXCEPT
                                !.state = Put(self.state, service_name, "half_open"),
                                !.successes = Put(self.successes, service_name, 0)]]
              ELSE [ret |-> TRUE, self |-> self]
         ELSE [ret |-> self.state[service_name] = "open", self |-> self]

\* _is_open recording the time of a rejected call as last_failure
is_open_extends(self, service_name, t) ==
    IF service_name \notin DOMAIN self.state
    THEN [ret |-> FALSE, self |-> self]
    ELSE IF self.state[service_name] = "open"
         THEN IF /\ service_name \in DOMAIN self.last_failure
                 /\ t - self.last_failure[service_name] >= recovery_timeout
              THEN [ret |-> FALSE,
                    self |-> [self EXCEPT
                                !.state = Put(self.state, service_name, "half_open"),
                                !.successes = Put(self.successes, service_name, 0)]]
              ELSE [ret |-> TRUE,
                    self |-> [self EXCEPT
                                !.last_failure = Put(self.last_failure, service_name, t)]]
         ELSE [ret |-> self.state[service_name] = "open", self |-> self]

\* _is_open without "self.successes[service_name] = 0" on the way to half_open
is_open_keeps_successes(self, service_name, t) ==
    IF service_name \notin DOMAIN self.state
    THEN [ret |-> FALSE, self |-> self]
    ELSE IF self.state[service_name] = "open"
         THEN IF /\ service_name \in DOMAIN self.last_failure
                 /\ t - self.last_failure[service_name] >= recovery_timeout
              THEN [ret |-> FALSE,
                    self |-> [self EXCEPT
                                !.state = Put(self.state, service_name, "half_open")]]
              ELSE [ret |-> TRUE, self |-> self]
         ELSE [ret |-> self.state[service_name] = "open", self |-> self]

\* CircuitBreaker._is_open: the answer and the breaker as the check leaves it
is_open(self, service_name, t) ==
    IF service_name \notin DOMAIN self.state
    THEN [ret |-> FALSE, self |-> self]
    ELSE IF self.state[service_name] = "open"
         THEN IF /\ service_name \in DOMAIN self.last_failure
                 /\ t - self.last_failure[service_name] >= recovery_timeout
              THEN [ret |-> FALSE,
                    self |-> [self EXCEPT
                                !.state = Put(self.state, service_name, "half_open"),
                                !.successes = Put(self.successes, service_name, 0)]]
              ELSE [ret |-> TRUE, self |-> self]
         ELSE [ret |-> self.state[service_name] = "open", self |-> self]

\* _reset without "self.state.pop(service_name, None)"
reset_keeps_state(self, service_name) ==
    [failures |-> Pop(self.failures, service_name),
     last_failure |-> Pop(self.last_failure, service_name),
     successes |-> Pop(self.successes, service_name),
     state |-> self.state]

\* _reset without "self.failures.pop(service_name, None)"
reset_keeps_failures(self, service_name) ==
    [failures |-> self.failures,
     last_failure |-> Pop(self.last_failure, service_name),
     successes |-> Pop(self.successes, service_name),
     state |-> Pop(self.state, service_name)]

\* CircuitBreaker._reset
reset(self, service_name) ==
    [failures |-> Pop(self.failures, service_name),
     last_failure |-> Pop(self.last_failure, service_name),
     successes |-> Pop(self.successes, service_name),
     state |-> Pop(self.state, service_name)]

\* _on_success with the closing test written "> half_open_success_threshold"
on_success_late(self, service_name) ==
    IF Get(self.state, service_name, "None") = "half_open"
    THEN LET counted == [self EXCEPT !.successes =
                            Put(self.successes, service_name,
                                Get(self.successes, service_name, 0) + 1)]
         IN  IF counted.successes[service_name] > half_open_success_threshold
             THEN reset(counted, service_name)
             ELSE counted
    ELSE self

\* CircuitBreaker._on_success
on_success(self, service_name) ==
    IF Get(self.state, service_name, "None") = "half_open"
    THEN LET counted == [self EXCEPT !.successes =
                            Put(self.successes, service_name,
                                Get(self.successes, service_name, 0) + 1)]
         IN  IF counted.successes[service_name] >= half_open_success_threshold
             THEN reset(counted, service_name)
             ELSE counted
    ELSE self

\* _on_failure with the opening test written "> failure_threshold"
on_failure_late(self, service_name, t) ==
    LET counted == [self EXCEPT
                      !.failures = Put(self.failures, service_name,
                                       Get(self.failures, service_name, 0) + 1),
                      !.last_failure = Put(self.last_failure, service_name, t)]
    IN  IF counted.failures[service_name] > failure_threshold
        THEN [counted EXCEPT !.state = Put(counted.state, service_name, "open")]
        ELSE counted

\* _on_failure with the opening test written "== failure_threshold"
on_failure_exact(self, service_name, t) ==
    LET counted == [self EXCEPT
                      !.failures = Put(self.failures, service_name,
                                       Get(self.failures, service_name, 0) + 1),
                      !.last_failure = Put(self.last_failure, service_name, t)]
    IN  IF counted.failures[service_name] = failure_threshold
        THEN [counted EXCEPT !.state = Put(counted.state, service_name, "open")]
        ELSE counted

\* _on_failure with the opening test written ">= failure_threshold - 1"
on_failure_early(self, service_name, t) ==
    LET counted == [self EXCEPT
                      !.failures = Put(self.failures, service_name,
                                       Get(self.failures, service_name, 0) + 1),
                      !.last_failure = Put(self.last_failure, service_name, t)]
    IN  IF counted.failures[service_name] >= failure_threshold - 1
        THEN [counted EXCEPT !.state = Put(counted.state, service_name, "open")]
        ELSE counted

\* _on_failure opening, at the threshold, every service that has failures
on_failure_opens_all(self, service_name, t) ==
    LET counted == [self EXCEPT
                      !.failures = Put(self.failures, service_name,
                                       Get(self.failures, service_name, 0) + 1),
                      !.last_failure = Put(self.last_failure, service_name, t)]
    IN  IF counted.failures[service_name] >= failure_threshold
        THEN [counted EXCEPT !.state = [x \in DOMAIN counted.failures |-> "open"]]
        ELSE counted

\* CircuitBreaker._on_failure
on_failure(self, service_name, t) ==
    LET counted == [self EXCEPT
                      !.failures = Put(self.failures, service_name,
                                       Get(self.failures, service_name, 0) + 1),
                      !.last_failure = Put(self.last_failure, service_name, t)]
    IN  IF counted.failures[service_name] >= failure_threshold
        THEN [counted EXCEPT !.state = Put(counted.state, service_name, "open")]
        ELSE counted

\* CircuitBreaker.get_state
get_state(self, service_name) ==
    [service |-> service_name,
     state |-> Get(self.state, service_name, "closed"),
     failure_count |-> Get(self.failures, service_name, 0),
     last_failure |-> Get(self.last_failure, service_name, -1)]

\* what get_state reports for the service
StateOf(s) == get_state(circuit_breaker, s).state
FailureCount(s) == get_state(circuit_breaker, s).failure_count
Successes(s) == Get(circuit_breaker.successes, s, 0)
Elapsed(s) == now - Get(circuit_breaker.last_failure, s, now)

TotalInvoked == invoked["service_a"] + invoked["service_b"]

\* the breaker before any call
BreakerIdle ==
    /\ circuit_breaker = NewBreaker
    /\ inflight = [c \in Callers |-> NoService]
    /\ admitted_in = [c \in Callers |-> "-"]
    /\ invoked = [s \in Services |-> 0]
    /\ streak = [s \in Services |-> 0]
    /\ event = [kind |-> "init", service |-> NoService, was |-> "-"]

\* no tasks, no messages, no records, idle workers
ReminderIdle ==
    /\ tasks = EmptyDict
    /\ audit_logs = EmptyBag
    /\ queue = EmptyBag
    /\ worker = [w \in {"w1", "w2"} |-> [pc |-> "idle"]]
    /\ dead = {}
    /\ sends = EmptyDict
    /\ delivered = {}
    /\ sweeps = 0
    /\ db_errors = 0
    /\ workers_lost = 0
    /\ direct_calls = 0
    /\ decision = NoDecision
    /\ api = http_client
    /\ office = NoOffice

InitBreaker ==
    /\ now = 0
    /\ BreakerIdle
    /\ ReminderIdle

\* wrapper, up to the await: the gate. A rejected call raises CircuitOpenError
\* and the wrapped function is not invoked.
CallBegin(c, s) ==
    /\ inflight[c] = NoService
    /\ TotalInvoked < MaxCalls
    /\ LET r == is_open(circuit_breaker, s, now)
       IN  /\ circuit_breaker' = r.self
           /\ IF r.ret
              THEN /\ event' = [kind |-> "rejected", service |-> s, was |-> StateOf(s)]
                   /\ UNCHANGED <<inflight, admitted_in, invoked>>
              ELSE /\ event' = [kind |-> "admitted", service |-> s, was |-> StateOf(s)]
                   /\ inflight' = [inflight EXCEPT ![c] = s]
                   /\ admitted_in' = [admitted_in EXCEPT
                                        ![c] = get_state(r.self, s).state]
                   /\ invoked' = [invoked EXCEPT ![s] = @ + 1]
    /\ UNCHANGED <<now, streak>>
    /\ UNCHANGED reminderVars

\* wrapper, after the await: the wrapped function returned
CallReturn(c) ==
    /\ inflight[c] # NoService
    /\ circuit_breaker' = on_success(circuit_breaker, inflight[c])
    /\ event' = [kind |-> "success", service |-> inflight[c], was |-> StateOf(inflight[c])]
    /\ streak' = [streak EXCEPT ![inflight[c]] = 0]
    /\ inflight' = [inflight EXCEPT ![c] = NoService]
    /\ admitted_in' = [admitted_in EXCEPT ![c] = "-"]
    /\ UNCHANGED <<now, invoked>>
    /\ UNCHANGED reminderVars

\* wrapper, after the await: the wrapped function raised
CallRaise(c) ==
    /\ inflight[c] # NoService
    /\ circuit_breaker' = on_failure(circuit_breaker, inflight[c], now)
    /\ event' = [kind |-> "failure", service |-> inflight[c], was |-> StateOf(inflight[c])]
    /\ streak' = [streak EXCEPT ![inflight[c]] = @ + 1]
    /\ inflight' = [inflight EXCEPT ![c] = NoService]
    /\ admitted_in' = [admitted_in EXCEPT ![c] = "-"]
    /\ UNCHANGED <<now, invoked>>
    /\ UNCHANGED reminderVars

\* time passes
Tick ==
    /\ now + TickStep <= MaxTime
    /\ now' = now + TickStep
    /\ event' = [kind |-> "tick", service |-> NoService, was |-> "-"]
    /\ UNCHANGED <<circuit_breaker, inflight, admitted_in, invoked, streak>>
    /\ UNCHANGED reminderVars

NextBreaker ==
    \/ \E c \in Callers, s \in Services : CallBegin(c, s)
    \/ \E c \in Callers : CallReturn(c)
    \/ \E c \in Callers : CallRaise(c)
    \/ Tick

SpecBreaker == InitBreaker /\ [][NextBreaker]_vars

-----------------------------------------------------------------------------
(* Properties of the circuit breaker (checked under SpecBreaker).          *)
(* A step is recognised by event': every action of the breaker writes it.  *)

StateOfNext(s) == get_state(circuit_breaker', s).state
GateStep(s) == event'.service = s /\ event'.kind \in {"admitted", "rejected"}
SuccessStep(s) == event'.service = s /\ event'.kind = "success"
FailureStep(s) == event'.service = s /\ event'.kind = "failure"

\* C3: the failure that brings the failure count of a service to
\* failure_threshold leaves its breaker Open, and every call made while the
\* breaker is Open and now - last_failure < recovery_timeout is rejected
\* (CircuitOpenError): the wrapped function is not invoked, its invocation
\* count stays where it was.
C3_OpenRejectsWithinTimeout ==
    [][\A s \in Services :
         /\ (FailureStep(s) /\ FailureCount(s) + 1 = failure_threshold)
               => StateOfNext(s) = "open"
         /\ (GateStep(s) /\ StateOf(s) = "open" /\ Elapsed(s) < recovery_timeout)
               => /\ event'.kind = "rejected"
                  /\ invoked' = invoked
                  /\ inflight' = inflight]_vars

\* C3 witness: the breaker of a fresh service opened by failure_threshold
\* failed calls has just rejected a call; the wrapped function was invoked
\* failure_threshold times.
C3_Witness ==
    \E s \in Services :
        /\ event = [kind |-> "rejected", service |-> s, was |-> "open"]
        /\ invoked[s] = failure_threshold
        /\ FailureCount(s) = failure_threshold
        /\ Elapsed(s) > 0 /\ Elapsed(s) < recovery_timeout

C7_HalfOpenSuccessCounts ==
    [][\A s \in Services :
         (SuccessStep(s) /\ StateOf(s) = "half_open")
            => IF Successes(s) + 1 < half_open_success_threshold
               THEN /\ StateOfNext(s) = "half_open"
                    /\ Get(circuit_breaker'.successes, s, -1) = Successes(s) + 1
                    /\ circuit_breaker'.failures = circuit_breaker.failures
               ELSE /\ StateOfNext(s) = "closed"
                    /\ get_state(circuit_breaker', s).failure_count = 0
                    /\ Get(circuit_breaker'.successes, s, 0) = 0]_vars

\* C7 witness: the success that reached half_open_success_threshold has just
\* closed a breaker that had been opened by failure_threshold failures.
C7_Witness ==
    \E s \in Services :
        /\ event = [kind |-> "success", service |-> s, was |-> "half_open"]
        /\ StateOf(s) = "closed"
        /\ invoked[s] = failure_threshold + half_open_success_threshold

C9_AsClaimed ==
    [][\A s \in Services :
         /\ (SuccessStep(s) /\ StateOf(s) = "closed")
               => get_state(circuit_breaker', s).failure_count = 0
         /\ (StateOf(s) = "closed" /\ StateOfNext(s) = "open")
               => streak'[s] >= failure_threshold]_vars

Trials(s) == {c \in Callers : inflight[c] = s /\ admitted_in[c] = "half_open"}

\* C11 (as claimed): after an Open to HalfOpen transition the gate holds back
\* some of the concurrent callers: the callers of a service are never all in
\* flight at once as trial calls.
C11_AsClaimed ==
    \A s \in Services : Trials(s) # Callers

-----------------------------------------------------------------------------
(* Reminder tasks: app/services/reminder_tasks.py                          *)
(* check_and_send_reminders (the sweep) and send_reminder_notification     *)
(* run as Celery tasks on a pool of workers; the audit_logs table holds    *)
(* the idempotency records. The tasks read and write AuditLog.             *)
(* idempotency_key / details and Task.assignee_email; models/audit_log.py  *)
(* and models/task.py declare no such columns, hence no uniqueness         *)
(* constraint on the key either: the model takes the accesses as the tasks *)
(* write them, and an insert never conflicts.                              *)

\* retry_kwargs={"max_retries": 3} of both tasks
max_retries == 3

\* bounds of the reminder model
MaxSweeps == 2       \* sweeps the beat schedules
MaxClock == 60       \* the clock of the reminder model stops here
BeatPeriod == 60     \* beat_schedule: check-reminders-every-minute

Workers == {"w1", "w2"}
TaskIds == {"t1", "t2"}
NoKey == << >>
Idle == [pc |-> "idle"]

\* a row of the tasks table, reduced to the columns the core reads
TaskRow(enabled, sent, at, assignee, channel) ==
    [reminder_enabled |-> enabled, reminder_sent |-> sent, reminder_at |-> at,
     assignee_id |-> assignee, reminder_channel |-> channel,
     assignee_email |-> "rcpt"]

\* rows task t1 may hold: due on each channel, due on a channel the task does
\* not know, due only after a beat period, and the three ways of not being
\* selected
RowsT1 ==
    {TaskRow("Y", "N", 0, "u1", ch) : ch \in {"email", "sms", "telegram", "push"}}
    \cup {TaskRow("Y", "N", BeatPeriod, "u1", "email"),
          TaskRow("N", "N", 0, "u1", "email"),
          TaskRow("Y", "Y", 0, "u1", "email"),
          TaskRow("Y", "N", 0, "None", "email")}

\* the tasks tables the model starts from: t1 alone with any of its rows, or
\* t1 due by email beside t2 due by sms
TaskTables ==
    {Put(EmptyDict, "t1", r) : r \in RowsT1}
    \cup {Put(Put(EmptyDict, "t1", TaskRow("Y", "N", 0, "u1", "email")),
               "t2", TaskRow("Y", "N", 0, "u1", "sms"))}

\* f"reminder:task:{task.id}:{task.reminder_at.isoformat()}"
TaskKey(task_id, reminder_at) == <<"reminder", "task", task_id, reminder_at>>

\* f"reminder:send:{task_id}:{channel}:{recipient}"
SendKey(task_id, channel, recipient) == <<"reminder", "send", task_id, channel, recipient>>

\* select(Task).where(reminder_enabled == "Y", reminder_sent == "N",
\*                    reminder_at <= now, assignee_id.isnot(None))
DueTasks(t) ==
    {id \in DOMAIN tasks :
        /\ tasks[id].reminder_enabled = "Y"
        /\ tasks[id].reminder_sent = "N"
        /\ tasks[id].reminder_at <= t
        /\ tasks[id].assignee_id # "None"}

\* the distinct rows of audit_logs carrying the key, and how many rows there
\* are
Records(key) == {r \in BagToSet(audit_logs) : r.idempotency_key = key}
RECURSIVE CountRows(_)
CountRows(S) ==
    IF S = {} THEN 0
    ELSE LET r == CHOOSE x \in S : TRUE
         IN  CopiesIn(r, audit_logs) + CountRows(S \ {r})
RecordCount(key) == CountRows(Records(key))

\* select(AuditLog).where(idempotency_key == key) ... scalar_one_or_none():
\* None for no row, the row for one, MultipleResultsFound for more
scalar_one_or_none(key) ==
    IF RecordCount(key) = 0 THEN "None"
    ELSE IF RecordCount(key) = 1 THEN "one"
    ELSE "MultipleResultsFound"

\* the message of a task call
SweepMessage(retries) ==
    [task |-> "check_and_send_reminders", task_id |-> "-", channel |-> "-",
     recipient |-> "-", idempotency_key |-> NoKey, retries |-> retries,
     redelivered |-> FALSE]
SendMessage(task_id, channel, recipient, key, retries) ==
    [task |-> "send_reminder_notification", task_id |-> task_id, channel |-> channel,
     recipient |-> recipient, idempotency_key |-> key, retries |-> retries,
     redelivered |-> FALSE]

\* autoretry_for=(Exception,): the task raised; the message is sent again
\* with retries + 1 until max_retries is used up, then the task fails
Retried(m) == [m EXCEPT !.retries = @ + 1, !.redelivered = FALSE]
\* the retry test written "retries <= max_retries"
QueueAfterRaise_once_more(q, m) ==
    IF m.retries <= max_retries THEN q (+) SetToBag({Retried(m)}) ELSE q
QueueAfterRaise(q, m) ==
    IF m.retries < max_retries THEN q (+) SetToBag({Retried(m)}) ELSE q
DeadAfterRaise(d, m) ==
    IF m.retries < max_retries THEN d ELSE d \cup {m}

\* the orders in which the select may return a set of rows
Orders(S) == {o \in [1..Cardinality(S) -> S] : \A i, j \in DOMAIN o : i # j => o[i] # o[j]}

InitReminder ==
    /\ now = 0
    /\ BreakerIdle
    /\ tasks \in TaskTables
    /\ audit_logs = EmptyBag
    /\ queue = EmptyBag
    /\ worker = [w \in Workers |-> Idle]
    /\ dead = {}
    /\ sends = EmptyDict
    /\ delivered = {}
    /\ sweeps = 0
    /\ db_errors = 0
    /\ workers_lost = 0
    /\ direct_calls = 0
    /\ decision = NoDecision
    /\ api = http_client
    /\ office = NoOffice

\* Celery beat schedules check_and_send_reminders
Beat ==
    /\ sweeps < MaxSweeps
    /\ sweeps' = sweeps + 1
    /\ queue' = queue (+) SetToBag({SweepMessage(0)})
    /\ UNCHANGED <<now, tasks, audit_logs, worker, dead, sends, delivered>>
    /\ UNCHANGED breakerVars
    /\ UNCHANGED envVars

\* a worker takes a sweep message: _check_reminders reads the clock and
\* selects the due tasks
StartSweep(w) ==
    /\ worker[w].pc = "idle"
    /\ \E m \in BagToSet(queue) :
         /\ m.task = "check_and_send_reminders"
         /\ queue' = queue (-) SetToBag({m})
         /\ \E o \in Orders(DueTasks(now)) :
              worker' = [worker EXCEPT ![w] =
                            [pc |-> "sweep", msg |-> m, todo |-> o,
                             processed |-> << >>, enqueued |-> << >>]]
    /\ UNCHANGED <<now, tasks, audit_logs, dead, sends, delivered, sweeps>>
    /\ UNCHANGED breakerVars
    /\ UNCHANGED envVars

\* one turn of the loop "for task in tasks"
SweepTask(w) ==
    /\ worker[w].pc = "sweep"
    /\ worker[w].todo # << >>
    /\ LET id == Head(worker[w].todo)
           idempotency_key == TaskKey(id, tasks[id].reminder_at)
           existing == scalar_one_or_none(idempotency_key)
           channel == tasks[id].reminder_channel
           m == SendMessage(id, channel, tasks[id].assignee_email, idempotency_key, 0)
       IN  IF existing = "MultipleResultsFound"
           THEN \* the sweep raises: logged, re-raised, retried by Celery
                /\ queue' = QueueAfterRaise(queue, worker[w].msg)
                /\ dead' = DeadAfterRaise(dead, worker[w].msg)
                /\ worker' = [worker EXCEPT ![w] = Idle]
           ELSE IF existing = "one"
           THEN /\ worker' = [worker EXCEPT ![w].todo = Tail(@),
                                 ![w].processed = Append(@, [task_id |-> id, status |-> "skipped"])]
                /\ UNCHANGED <<queue, dead>>
           ELSE /\ queue' = IF channel \in {"email", "sms", "telegram"}
                            THEN queue (+) SetToBag({m}) ELSE queue
                /\ worker' = [worker EXCEPT ![w].todo = Tail(@),
                                 ![w].processed = Append(@, [task_id |-> id, status |-> "queued"]),
                                 ![w].enqueued = IF channel \in {"email", "sms", "telegram"}
                                                 THEN Append(@, m) ELSE @]
                /\ UNCHANGED dead
    /\ UNCHANGED <<now, tasks, audit_logs, sends, delivered, sweeps>>
    /\ UNCHANGED breakerVars
    /\ UNCHANGED envVars

\* the loop is over: commit, return the report, the message is acknowledged
FinishSweep(w) ==
    /\ worker[w].pc = "sweep"
    /\ worker[w].todo = << >>
    /\ worker' = [worker EXCEPT ![w] = Idle]
    /\ UNCHANGED <<now, tasks, audit_logs, queue, dead, sends, delivered, sweeps>>
    /\ UNCHANGED breakerVars
    /\ UNCHANGED envVars

\* the notification task raising for a task id that has no row
StartSend_raises(w) ==
    /\ worker[w].pc = "idle"
    /\ \E m \in BagToSet(queue) :
         /\ m.task = "send_reminder_notification"
         /\ LET idempotency_key ==
                    IF m.idempotency_key = NoKey
                    THEN SendKey(m.task_id, m.channel, m.recipient)
                    ELSE m.idempotency_key
                existing == scalar_one_or_none(idempotency_key)
            IN  IF existing = "MultipleResultsFound"
                THEN \* the task raises and is retried
                     /\ queue' = QueueAfterRaise(queue (-) SetToBag({m}), m)
                     /\ dead' = DeadAfterRaise(dead, m)
                     /\ UNCHANGED worker
                ELSE IF existing = "one"
                THEN \* {"status": "already_sent"}
                     /\ queue' = queue (-) SetToBag({m})
                     /\ UNCHANGED <<worker, dead>>
                ELSE IF m.task_id \notin DOMAIN tasks
                THEN /\ queue' = QueueAfterRaise(queue (-) SetToBag({m}), m)
                     /\ dead' = DeadAfterRaise(dead, m)
                     /\ UNCHANGED worker
                ELSE /\ queue' = queue (-) SetToBag({m})
                     /\ worker' = [worker EXCEPT ![w] =
                                     [pc |-> "send", msg |-> m, key |-> idempotency_key]]
                     /\ UNCHANGED dead
    /\ UNCHANGED <<now, tasks, audit_logs, sends, delivered, sweeps>>
    /\ UNCHANGED breakerVars
    /\ UNCHANGED envVars

\* a worker takes a notification message: the idempotency check and the
\* lookup of the task
StartSend(w) ==
    /\ worker[w].pc = "idle"
    /\ \E m \in BagToSet(queue) :
         /\ m.task = "send_reminder_notification"
         /\ LET idempotency_key ==
                    IF m.idempotency_key = NoKey
                    THEN SendKey(m.task_id, m.channel, m.recipient)
                    ELSE m.idempotency_key
                existing == scalar_one_or_none(idempotency_key)
            IN  IF existing = "MultipleResultsFound"
                THEN \* the task raises and is retried
                     /\ queue' = QueueAfterRaise(queue (-) SetToBag({m}), m)
                     /\ dead' = DeadAfterRaise(dead, m)
                     /\ UNCHANGED worker
                ELSE IF existing = "one"
                THEN \* {"status": "already_sent"}
                     /\ queue' = queue (-) SetToBag({m})
                     /\ UNCHANGED <<worker, dead>>
                ELSE IF m.task_id \notin DOMAIN tasks
                THEN \* {"status": "error", "message": "Task not found"}
                     /\ queue' = queue (-) SetToBag({m})
                     /\ UNCHANGED <<worker, dead>>
                ELSE /\ queue' = queue (-) SetToBag({m})
                     /\ worker' = [worker EXCEPT ![w] =
                                     [pc |-> "send", msg |-> m, key |-> idempotency_key]]
                     /\ UNCHANGED dead
    /\ UNCHANGED <<now, tasks, audit_logs, sends, delivered, sweeps>>
    /\ UNCHANGED breakerVars
    /\ UNCHANGED envVars

\* what send_email / send_sms may return: not configured, sent, or the
\* provider's exception turned into an error result
ChannelResults == {"stub", "sent", "error"}

\* the channel branch: result_data
ChannelSend(w) ==
    /\ worker[w].pc = "send"
    /\ LET m == worker[w].msg
           key == worker[w].key
       IN  IF m.channel \in {"email", "sms"}
           THEN \E status \in ChannelResults :
                  /\ sends' = Put(sends, key, Get(sends, key, 0) + 1)
                  /\ delivered' = IF status = "sent" THEN delivered \cup {key} ELSE delivered
                  /\ worker' = [worker EXCEPT ![w] =
                                  [pc |-> "record", msg |-> m, key |-> key, result_data |-> status]]
           ELSE /\ worker' = [worker EXCEPT ![w] =
                                [pc |-> "record", msg |-> m, key |-> key,
                                 result_data |-> IF m.channel = "telegram" THEN "stub" ELSE "error"]]
                /\ UNCHANGED <<sends, delivered>>
    /\ UNCHANGED <<now, tasks, audit_logs, queue, dead, sweeps>>
    /\ UNCHANGED breakerVars
    /\ UNCHANGED envVars

\* "Record idempotency" that also sets task.reminder_sent = "Y"
RecordIdempotency_marks(w) ==
    /\ worker[w].pc = "record"
    /\ audit_logs' = audit_logs (+) SetToBag({
                            [idempotency_key |-> worker[w].key,
                             result |-> worker[w].result_data,
                             task_id |-> worker[w].msg.task_id,
                             channel |-> worker[w].msg.channel,
                             created_at |-> now]})
    /\ tasks' = [tasks EXCEPT ![worker[w].msg.task_id].reminder_sent = "Y"]
    /\ worker' = [worker EXCEPT ![w] = Idle]
    /\ UNCHANGED <<now, queue, dead, sends, delivered, sweeps>>
    /\ UNCHANGED breakerVars
    /\ UNCHANGED envVars

\* "Record idempotency" storing result_data as it was initialised (None)
RecordIdempotency_stale(w) ==
    /\ worker[w].pc = "record"
    /\ audit_logs' = audit_logs (+) SetToBag({
                            [idempotency_key |-> worker[w].key,
                             result |-> "None",
                             task_id |-> worker[w].msg.task_id,
                             channel |-> worker[w].msg.channel,
                             created_at |-> now]})
    /\ worker' = [worker EXCEPT ![w] = Idle]
    /\ UNCHANGED <<now, tasks, queue, dead, sends, delivered, sweeps>>
    /\ UNCHANGED breakerVars
    /\ UNCHANGED envVars

\* "Record idempotency": db.add(audit), commit, return {"status": "sent"}
RecordIdempotency(w) ==
    /\ worker[w].pc = "record"
    /\ audit_logs' = audit_logs (+) SetToBag({
                            [idempotency_key |-> worker[w].key,
                             result |-> worker[w].result_data,
                             task_id |-> worker[w].msg.task_id,
                             channel |-> worker[w].msg.channel,
                             created_at |-> now]})
    /\ worker' = [worker EXCEPT ![w] = Idle]
    /\ UNCHANGED <<now, tasks, queue, dead, sends, delivered, sweeps>>
    /\ UNCHANGED breakerVars
    /\ UNCHANGED envVars

\* a beat period passes
TickReminder ==
    /\ now + BeatPeriod <= MaxClock
    /\ now' = now + BeatPeriod
    /\ UNCHANGED reminderVars
    /\ UNCHANGED breakerVars

NextReminder ==
    \/ Beat
    \/ \E w \in Workers : StartSweep(w)
    \/ \E w \in Workers : SweepTask(w)
    \/ \E w \in Workers : FinishSweep(w)
    \/ \E w \in Workers : StartSend(w)
    \/ \E w \in Workers : ChannelSend(w)
    \/ \E w \in Workers : RecordIdempotency(w)
    \/ TickReminder

SpecReminder == InitReminder /\ [][NextReminder]_vars

-----------------------------------------------------------------------------
(* The reminder tasks in their environment: the database may fail         *)
(* (SpecRetry), a worker may be lost (SpecLost), the daily cleanup runs    *)
(* and the retention window passes (SpecRetention), and                    *)
(* send_reminder_notification may be called without a key (SpecDirect).    *)
(* Each specification adds one kind of event to the reminder tasks.        *)

\* bounds of the delivery model
MaxDbErrors == 4       \* database errors raised in task bodies
MaxWorkersLost == 1    \* workers lost while running a task
MaxDirectCalls == 1    \* calls of send_reminder_notification without a key

\* beat_schedule: cleanup-audit-logs-daily, kwargs {"days": 90}
days == 90
Day == 86400

\* a task id no row of the tasks table carries
UnknownTask == "t0"

\* the tasks tables the delivery model starts from
DeliveryTables ==
    {Put(EmptyDict, "t1", TaskRow("Y", "N", 0, "u1", ch)) : ch \in {"email", "sms"}}

InitDelivery ==
    /\ now = 0
    /\ BreakerIdle
    /\ tasks \in DeliveryTables
    /\ audit_logs = EmptyBag
    /\ queue = EmptyBag
    /\ worker = [w \in Workers |-> Idle]
    /\ dead = {}
    /\ sends = EmptyDict
    /\ delivered = {}
    /\ sweeps = 0
    /\ db_errors = 0
    /\ workers_lost = 0
    /\ direct_calls = 0
    /\ decision = NoDecision
    /\ api = http_client
    /\ office = NoOffice

\* the first db.execute of _send raises (connection lost, timeout): the task
\* logs reminder_send_failed and re-raises; autoretry_for=(Exception,)
SendDbError(w) ==
    /\ db_errors < MaxDbErrors
    /\ worker[w].pc = "idle"
    /\ \E m \in BagToSet(queue) :
         /\ m.task = "send_reminder_notification"
         /\ queue' = QueueAfterRaise(queue (-) SetToBag({m}), m)
         /\ dead' = DeadAfterRaise(dead, m)
    /\ db_errors' = db_errors + 1
    /\ UNCHANGED <<now, tasks, audit_logs, worker, sends, delivered, sweeps,
                   workers_lost, direct_calls, decision, api, office>>
    /\ UNCHANGED breakerVars

\* the worker is lost while it runs a task: acks_late=True and
\* reject_on_worker_lost=True, the broker delivers the message again
WorkerLost(w) ==
    /\ workers_lost < MaxWorkersLost
    /\ worker[w].pc # "idle"
    /\ queue' = queue (+) SetToBag({[worker[w].msg EXCEPT !.redelivered = TRUE]})
    /\ worker' = [worker EXCEPT ![w] = Idle]
    /\ workers_lost' = workers_lost + 1
    /\ UNCHANGED <<now, tasks, audit_logs, dead, sends, delivered, sweeps,
                   db_errors, direct_calls, decision, api, office>>
    /\ UNCHANGED breakerVars

\* cutoff = datetime.utcnow() - timedelta(days=days)
cutoff(t) == t - days * Day

\* cleanup_old_audit_logs, scheduled daily by the beat and run by an idle
\* worker: delete(AuditLog).where(AuditLog.created_at < cutoff), commit
cleanup_old_audit_logs ==
    /\ \E w \in Workers : worker[w].pc = "idle"
    /\ LET kept == {r \in BagToSet(audit_logs) : ~ (r.created_at < cutoff(now))}
       IN  audit_logs' = [r \in kept |-> audit_logs[r]]
    /\ UNCHANGED <<now, tasks, queue, worker, dead, sends, delivered, sweeps>>
    /\ UNCHANGED envVars
    /\ UNCHANGED breakerVars

\* the retention window of the audit log passes
RetentionPasses ==
    /\ now <= MaxClock
    /\ now' = now + days * Day
    /\ UNCHANGED reminderVars
    /\ UNCHANGED breakerVars

\* send_reminder_notification.delay(task_id, channel, recipient): a call
\* that passes no idempotency_key, for a task of the table or an unknown id
DirectDelay(task_id) ==
    /\ direct_calls < MaxDirectCalls
    /\ LET channel == IF task_id \in DOMAIN tasks
                      THEN tasks[task_id].reminder_channel ELSE "email"
       IN  queue' = queue (+) SetToBag({SendMessage(task_id, channel, "rcpt", NoKey, 0)})
    /\ direct_calls' = direct_calls + 1
    /\ UNCHANGED <<now, tasks, audit_logs, worker, dead, sends, delivered, sweeps,
                   db_errors, workers_lost, decision, api, office>>
    /\ UNCHANGED breakerVars

\* the reminder tasks over a database that may fail
NextRetry ==
    \/ NextReminder
    \/ \E w \in Workers : SendDbError(w)

SpecRetry == InitDelivery /\ [][NextRetry]_vars

\* the reminder tasks on workers that may be lost
NextLost ==
    \/ NextReminder
    \/ \E w \in Workers : WorkerLost(w)

SpecLost == InitDelivery /\ [][NextLost]_vars

\* the reminder tasks beside the daily cleanup of the audit log
NextRetention ==
    \/ NextReminder
    \/ cleanup_old_audit_logs
    \/ RetentionPasses

SpecRetention == InitDelivery /\ [][NextRetention]_vars

\* the reminder tasks beside direct calls of send_reminder_notification
NextDirect ==
    \/ NextReminder
    \/ \E task_id \in DOMAIN tasks \cup {UnknownTask} : DirectDelay(task_id)

SpecDirect == InitDelivery /\ [][NextDirect]_vars

-----------------------------------------------------------------------------
(* The retry policy of the tasks: autoretry_for=(Exception,),              *)
(* retry_backoff=True, retry_backoff_max, retry_kwargs max_retries. It     *)
(* does not look at the class of the exception. No task of the repository  *)
(* calls a function guarded by the breaker; SpecPolicy hands the           *)
(* exceptions a guarded call raises (CircuitOpenError from the gate, the   *)
(* exception of the wrapped function) to the policy of                     *)
(* send_reminder_notification, and stops at the first decision.            *)

\* retry_backoff_max of send_reminder_notification
retry_backoff_max == 300

RECURSIVE Pow2(_)
Pow2(n) == IF n = 0 THEN 1 ELSE 2 * Pow2(n - 1)

\* retry_backoff=True without retry_backoff_max taking effect
backoff_uncapped(retries) == Pow2(retries)

\* retry_backoff=True: min(retry_backoff_max, 1 * 2 ** retries), before jitter
backoff(retries) ==
    IF Pow2(retries) < retry_backoff_max THEN Pow2(retries) ELSE retry_backoff_max

\* retry_jitter (on by default): random.randrange(backoff + 1)
Countdowns(retries) == 0 .. backoff(retries)

\* the task body raised at the given retry count: retry after the countdown,
\* or fail when the retries are used up
Autoretry(retries, countdown) ==
    /\ decision = NoDecision
    /\ event.kind \in {"rejected", "failure"}
    /\ IF retries < max_retries THEN countdown \in Countdowns(retries) ELSE countdown = 0
    /\ decision' = [action |-> IF retries < max_retries THEN "retry" ELSE "fail",
                    exc |-> IF event.kind = "rejected"
                            THEN "CircuitOpenError" ELSE "Exception",
                    service |-> event.service,
                    retries |-> retries,
                    countdown |-> countdown]
    /\ UNCHANGED <<now, tasks, audit_logs, queue, worker, dead, sends, delivered,
                   sweeps, db_errors, workers_lost, direct_calls, api, office>>
    /\ UNCHANGED breakerVars

NextPolicy ==
    \/ decision = NoDecision /\ NextBreaker
    \/ \E retries \in 0 .. max_retries, countdown \in Countdowns(max_retries) :
          Autoretry(retries, countdown)

SpecPolicy == InitBreaker /\ [][NextPolicy]_vars

\* bound of the retry counts the backoff is computed for
MaxAttempt == 10

\* the countdown of one retry: the backoff of the retry count, then the jitter
Backoff(retries, countdown) ==
    /\ countdown \in Countdowns(retries)
    /\ decision' = [action |-> "retry", exc |-> "Exception", service |-> NoService,
                    retries |-> retries,
                    delay |-> backoff(retries),
                    countdown |-> countdown]
    /\ UNCHANGED <<now, tasks, audit_logs, queue, worker, dead, sends, delivered,
                   sweeps, db_errors, workers_lost, direct_calls, api, office>>
    /\ UNCHANGED breakerVars

NextBackoff ==
    \E retries \in 0 .. MaxAttempt :
        \E countdown \in 0 .. retry_backoff_max : Backoff(retries, countdown)

SpecBackoff == InitBreaker /\ [][NextBackoff]_vars

\* what is left of the recovery timeout of the service
RemainingRecovery(s) ==
    Get(circuit_breaker.last_failure, s, now) + recovery_timeout - now

-----------------------------------------------------------------------------
(* Properties of the reminder tasks (checked under SpecReminder).          *)

\* the keys the sweep derives from the tasks table
TaskKeys == {TaskKey(id, tasks[id].reminder_at) : id \in DOMAIN tasks}

\* the workers that passed the idempotency check for the key and have not
\* yet returned
Claimants(key) == {w \in Workers : worker[w].pc \in {"send", "record"} /\ worker[w].key = key}

\* the messages for the key still waiting in the broker
Waiting(key) == {m \in BagToSet(queue) : m.idempotency_key = key}

\* C1 (as claimed): for every key, whatever the overlap of the sweeps and the
\* interleaving of the workers, the channel send is invoked at most once and
\* at most one record is written; once the deliveries of a key that reached
\* the channel are over there is exactly one record.
C1_AsClaimed ==
    \A key \in TaskKeys :
        /\ Get(sends, key, 0) <= 1
        /\ RecordCount(key) <= 1
        /\ (Get(sends, key, 0) >= 1 /\ Claimants(key) = {} /\ Waiting(key) = {})
              => RecordCount(key) = 1

\* C2 (as claimed): of the claim attempts on one key (the existence check of
\* send_reminder_notification) only one succeeds: a key never has two
\* claimants at once, nor a claimant besides a record, nor two records.
C2_AsClaimed ==
    \A key \in TaskKeys :
        Cardinality(Claimants(key)) + RecordCount(key) <= 1

\* C4 (as claimed): a record exists for a key if and only if a channel send
\* for that key returned success: every record's key was delivered, and a
\* delivered key has its record as soon as the delivering worker returned.
C4_AsClaimed ==
    /\ \A r \in BagToSet(audit_logs) : r.idempotency_key \in delivered
    /\ \A key \in delivered : Claimants(key) = {} => Records(key) # {}

\* C5 (as claimed): a delivery whose channel send failed finalizes no record,
\* so the key stays free for a later delivery: no record carries the error
\* result of send_email / send_sms.
C5_AsClaimed ==
    \A r \in BagToSet(audit_logs) :
        ~ (r.channel \in {"email", "sms"} /\ r.result = "error")

-----------------------------------------------------------------------------
(* Properties of the reminder tasks over a failing database (SpecRetry).   *)

\* the messages the system holds: waiting, being processed, or failed
Held == {worker[w].msg : w \in {x \in Workers : worker[x].pc # "idle"}}
AllMessages == BagToSet(queue) \cup Held \cup dead

\* the message leaves the broker or the worker that held it
Consumed(o) ==
    \/ CopiesIn(o, queue') < CopiesIn(o, queue)
    \/ \E w \in Workers :
          worker[w].pc # "idle" /\ worker[w].msg = o /\ worker'[w].pc = "idle"

\* C12: no message ever carries more than max_retries retries; a message
\* enters the broker with retries > 0 only as the retry of a message consumed
\* in the same step, with exactly one retry more; a message fails for good
\* only with retries = max_retries, and the step that fails it puts nothing
\* in the broker.
C12_RetryBudget ==
    [][/\ \A m \in AllMessages' : m.retries <= max_retries
       /\ \A m \in BagToSet(queue') :
             (CopiesIn(m, queue') > CopiesIn(m, queue) /\ m.retries > 0)
                => \E o \in BagToSet(queue) \cup Held :
                      /\ Consumed(o)
                      /\ m = [o EXCEPT !.retries = o.retries + 1, !.redelivered = FALSE]
       /\ \A m \in dead' \ dead :
             /\ m.retries = max_retries
             /\ \A q \in BagToSet(queue') : CopiesIn(q, queue') <= CopiesIn(q, queue)]_vars

\* C12 witness: a notification message raised max_retries + 1 times, once
\* per attempt, and has failed for good; nothing is left in the broker.
C12_Witness ==
    /\ db_errors = max_retries + 1
    /\ queue = EmptyBag
    /\ \E m \in dead :
          m.task = "send_reminder_notification" /\ m.retries = max_retries

\* the keys whose notification message has failed for good
DeadKeys == {m.idempotency_key : m \in {d \in dead : d.task = "send_reminder_notification"}}

\* C13 (as claimed): once the delivery of a key has failed for good, no step
\* puts a message for that key in the broker and no step invokes the channel
\* send for it.
C13_AsClaimed ==
    [][\A key \in DeadKeys :
         /\ \A m \in BagToSet(queue') :
               m.idempotency_key = key => CopiesIn(m, queue') <= CopiesIn(m, queue)
         /\ Get(sends', key, 0) = Get(sends, key, 0)]_vars

-----------------------------------------------------------------------------
(* Further properties of the reminder tasks (SpecReminder).                *)

\* C14 (as claimed): a first attempt whose channel send failed for good ends
\* with its message failed (dead-lettered), after exactly one invocation of
\* the channel send: wherever a delivery has ended on an error result of
\* send_email / send_sms, the key is among the failed ones.
C14_AsClaimed ==
    \A r \in BagToSet(audit_logs) :
        (r.channel \in {"email", "sms"} /\ r.result = "error")
            => /\ r.idempotency_key \in DeadKeys
               /\ Get(sends, r.idempotency_key, 0) = 1

\* C16 (as claimed): every channel send of send_reminder_notification is an
\* invocation made through the circuit breaker, and its outcome is reported
\* to the breaker: the breaker has invoked at least as many wrapped functions
\* as a key has channel sends, and after a send that returned an error the
\* breaker holds a failure.
C16_AsClaimed ==
    /\ \A key \in DOMAIN sends : sends[key] <= TotalInvoked
    /\ \A w \in Workers :
          (/\ worker[w].pc = "record"
           /\ worker[w].msg.channel \in {"email", "sms"}
           /\ worker[w].result_data = "error")
              => circuit_breaker.failures # EmptyDict

-----------------------------------------------------------------------------
(* Properties of the reminder tasks on workers that may be lost (SpecLost). *)

\* C17 (as claimed): the message of a lost worker is back in the broker, and
\* a worker that holds a redelivered message never invokes the channel send
\* for a key whose send has already succeeded.
C17_AsClaimed ==
    [][\A w \in Workers :
         /\ (workers_lost' > workers_lost /\ worker[w].pc # "idle" /\ worker'[w].pc = "idle")
               => \E m \in BagToSet(queue') :
                     /\ m = [worker[w].msg EXCEPT !.redelivered = TRUE]
                     /\ CopiesIn(m, queue') = CopiesIn(m, queue) + 1
         /\ (/\ worker[w].pc = "send"
             /\ worker[w].msg.redelivered
             /\ Get(sends', worker[w].key, 0) > Get(sends, worker[w].key, 0))
               => worker[w].key \notin delivered]_vars

\* the key under which send_reminder_notification handles the message
KeyOf(m) ==
    IF m.idempotency_key = NoKey
    THEN SendKey(m.task_id, m.channel, m.recipient) ELSE m.idempotency_key

\* C19 (as claimed): a notification message taken from the broker while its
\* key has a record is acknowledged and nothing else happens: no retry enters
\* the broker, no message fails, no worker goes on to the channel send, and
\* the audit log and the send counts stay as they were.
C19_AsClaimed ==
    [][\A m \in BagToSet(queue) :
         (/\ m.task = "send_reminder_notification"
          /\ RecordCount(KeyOf(m)) >= 1
          /\ CopiesIn(m, queue') < CopiesIn(m, queue))
            => /\ queue' = queue (-) SetToBag({m})
               /\ dead' = dead
               /\ worker' = worker
               /\ audit_logs' = audit_logs
               /\ sends' = sends]_vars

-----------------------------------------------------------------------------
(* Properties of the reminder tasks beside the cleanup (SpecRetention).    *)

\* C18 (as claimed): no step deletes or changes a row of the audit log, and
\* once a key has a record no step invokes the channel send for that key.
C18_AsClaimed ==
    [][/\ \A r \in BagToSet(audit_logs) :
             CopiesIn(r, audit_logs') >= CopiesIn(r, audit_logs)
       /\ \A key \in TaskKeys :
             RecordCount(key) > 0 => Get(sends', key, 0) = Get(sends, key, 0)]_vars

-----------------------------------------------------------------------------
(* Properties of the reminder tasks beside direct calls (SpecDirect).      *)

\* C20 (as claimed): every key is the function TaskKey of the task's id and
\* its reminder_at, whenever it is computed: the key of every notification
\* message a sweep enqueued, every key under which a worker checks, sends and
\* records, and the key of every row of the audit log.
C20_AsClaimed ==
    /\ \A m \in BagToSet(queue) :
          (m.task = "send_reminder_notification" /\ m.idempotency_key # NoKey)
             => m.idempotency_key = TaskKey(m.task_id, tasks[m.task_id].reminder_at)
    /\ \A w \in Workers :
          worker[w].pc \in {"send", "record"}
             => worker[w].key = TaskKey(worker[w].msg.task_id,
                                        tasks[worker[w].msg.task_id].reminder_at)
    /\ \A r \in BagToSet(audit_logs) : r.idempotency_key \in TaskKeys

-----------------------------------------------------------------------------
(* Shared HTTP client: app/core/http_client.py. One request of APIClient   *)
(* is the tenacity loop around the body of _request_with_retry.            *)

\* @retry(stop=stop_after_attempt(3),
\*        wait=wait_exponential(multiplier=1, min=2, max=10), ...)
stop_after_attempt == 3
wait_multiplier == 1
wait_min == 2
wait_max == 10

\* bounds of the client model
MaxRequests == 2       \* requests one client carries out
MaxConstructed == 4    \* largest max_attempts a client is constructed with

\* what one pass through the body does: self.client.request returns a
\* response that raise_for_status accepts, or the body raises (the except
\* clauses log and re-raise)
AttemptOutcomes ==
    {"response", "HTTPStatusError", "TimeoutException", "ConnectError", "ReadError"}

\* the retry predicate narrowed to httpx.TimeoutException
retry_if_timeout_only(exc) == exc = "TimeoutException"

\* the retry predicate widened to every exception
retry_if_any_exception(exc) == exc \in AttemptOutcomes \ {"response"}

\* retry=retry_if_exception_type((httpx.TimeoutException, httpx.ConnectError))
retry_if_exception_type(exc) == exc \in {"TimeoutException", "ConnectError"}

\* wait_exponential: max(min, min(multiplier * 2 ** (attempt_number - 1), max))
wait_exponential(attempt_number) ==
    LET exp == wait_multiplier * Pow2(attempt_number - 1)
        capped == IF exp < wait_max THEN exp ELSE wait_max
    IN  IF capped > wait_min THEN capped ELSE wait_min

\* what tenacity does with the outcome of an attempt: hand the result back,
\* let an exception it does not retry propagate, raise RetryError when the
\* stop condition holds (reraise is not set), or sleep and try again
after_attempt(outcome, attempt_number) ==
    IF outcome = "response" THEN [do |-> "return", value |-> "response"]
    ELSE IF ~ retry_if_exception_type(outcome) THEN [do |-> "raise", value |-> outcome]
    ELSE IF attempt_number >= stop_after_attempt
         THEN [do |-> "raise", value |-> "RetryError"]
         ELSE [do |-> "sleep", value |-> "None"]

InitHttp ==
    /\ now = 0
    /\ BreakerIdle
    /\ tasks = EmptyDict
    /\ audit_logs = EmptyBag
    /\ queue = EmptyBag
    /\ worker = [w \in Workers |-> Idle]
    /\ dead = {}
    /\ sends = EmptyDict
    /\ delivered = {}
    /\ sweeps = 0
    /\ db_errors = 0
    /\ workers_lost = 0
    /\ direct_calls = 0
    /\ decision = NoDecision
    /\ api \in {NewClient(max_attempts) : max_attempts \in 1 .. MaxConstructed}
    /\ office = NoOffice

httpFrame ==
    <<now, tasks, audit_logs, queue, worker, dead, sends, delivered, sweeps,
      db_errors, workers_lost, direct_calls, decision, office>>

\* get / post / put / delete / patch: a call of _request_with_retry begins
Request ==
    /\ api.pc \in {"idle", "done"}
    /\ api.requests < MaxRequests
    /\ api' = [api EXCEPT !.pc = "attempt", !.attempt_number = 1, !.call_count = 0,
                          !.history = << >>, !.returned = "None", !.raised = "None",
                          !.slept = 0, !.requests = @ + 1]
    /\ UNCHANGED httpFrame
    /\ UNCHANGED breakerVars

\* one attempt: the body runs, then tenacity decides
Attempt(outcome) ==
    /\ api.pc = "attempt"
    /\ LET then == after_attempt(outcome, api.attempt_number)
       IN  api' = [api EXCEPT
                     !.call_count = @ + 1,
                     !.history = Append(@, outcome),
                     !.pc = IF then.do = "sleep" THEN "sleep" ELSE "done",
                     !.returned = IF then.do = "return" THEN then.value ELSE @,
                     !.raised = IF then.do = "raise" THEN then.value ELSE @]
    /\ UNCHANGED httpFrame
    /\ UNCHANGED breakerVars

\* before_sleep logs, tenacity sleeps, the next attempt begins
Sleep ==
    /\ api.pc = "sleep"
    /\ api' = [api EXCEPT !.pc = "attempt",
                          !.slept = @ + wait_exponential(api.attempt_number),
                          !.attempt_number = @ + 1]
    /\ UNCHANGED httpFrame
    /\ UNCHANGED breakerVars

NextHttp ==
    \/ Request
    \/ \E outcome \in AttemptOutcomes : Attempt(outcome)
    \/ Sleep

SpecHttp == InitHttp /\ [][NextHttp]_vars

-----------------------------------------------------------------------------
(* The reminder tasks under fair scheduling (SpecLive): the beat keeps     *)
(* scheduling, the clock advances, and a worker that can take or continue  *)
(* a task does so.                                                         *)

\* the tasks table of the liveness model: t1 due at once by email, t2 due
\* after a beat period by sms
LiveTables ==
    {Put(Put(EmptyDict, "t1", TaskRow("Y", "N", 0, "u1", "email")),
              "t2", TaskRow("Y", "N", BeatPeriod, "u1", "sms"))}

InitLive ==
    /\ now = 0
    /\ BreakerIdle
    /\ tasks \in LiveTables
    /\ audit_logs = EmptyBag
    /\ queue = EmptyBag
    /\ worker = [w \in Workers |-> Idle]
    /\ dead = {}
    /\ sends = EmptyDict
    /\ delivered = {}
    /\ sweeps = 0
    /\ db_errors = 0
    /\ workers_lost = 0
    /\ direct_calls = 0
    /\ decision = NoDecision
    /\ api = http_client
    /\ office = NoOffice

\* the beat goes on after the sweeps counted by MaxSweeps: the next sweep is
\* scheduled once the queue is empty and the workers are idle (a beat period
\* is long beside a task)
BeatAgain ==
    /\ sweeps = MaxSweeps
    /\ queue = EmptyBag
    /\ \A w \in Workers : worker[w].pc = "idle"
    /\ queue' = queue (+) SetToBag({SweepMessage(0)})
    /\ UNCHANGED <<now, tasks, audit_logs, worker, dead, sends, delivered, sweeps>>
    /\ UNCHANGED breakerVars
    /\ UNCHANGED envVars

NextLive ==
    \/ NextReminder
    \/ BeatAgain

\* beat and clock run on; every worker process takes the steps it can take
FairScheduling ==
    /\ WF_vars(Beat)
    /\ WF_vars(BeatAgain)
    /\ WF_vars(TickReminder)
    /\ \A w \in Workers :
          /\ WF_vars(StartSweep(w))
          /\ WF_vars(SweepTask(w))
          /\ WF_vars(FinishSweep(w))
          /\ WF_vars(StartSend(w))
          /\ WF_vars(ChannelSend(w))
          /\ WF_vars(RecordIdempotency(w))

SpecLive == InitLive /\ [][NextLive]_vars /\ FairScheduling

-----------------------------------------------------------------------------
(* Round trip of the channel result (SpecReminder).                        *)

\* C21: the step that writes the record of a delivery stores, under the key
\* of the delivery, the result the channel send returned to that delivery;
\* in particular a delivery whose send returned "sent" records "sent", and
\* every row that says "sent" belongs to a key the channel delivered.
C21_RecordEqualsResult ==
    [][/\ \A w \in Workers :
             (worker[w].pc = "record" /\ worker'[w].pc = "idle")
                => \E r \in BagToSet(audit_logs') :
                      /\ CopiesIn(r, audit_logs') = CopiesIn(r, audit_logs) + 1
                      /\ r.idempotency_key = worker[w].key
                      /\ r.result = worker[w].result_data
       /\ \A w \in Workers :
             (worker[w].pc = "send" /\ worker'[w].pc = "record"
                 /\ worker[w].key \in delivered' \ delivered)
                => worker'[w].result_data = "sent"
       /\ \A r \in BagToSet(audit_logs') :
             r.result = "sent" => r.idempotency_key \in delivered']_vars

\* C21 witness: a delivery whose send returned "sent" has written its
\* record, and the worker is idle again.
C21_Witness ==
    \E key \in delivered :
        /\ Claimants(key) = {}
        /\ sends[key] = 1
        /\ \E r \in Records(key) : r.result = "sent"

-----------------------------------------------------------------------------
(* The retry delay as a function of the retry count (SpecBackoff).         *)

\* C22: the delay before the retry that follows attempt n is
\* min(1 * 2^n, retry_backoff_max) before jitter; it never exceeds
\* retry_backoff_max (300 s), the jittered countdown never exceeds it, and
\* the un-jittered delay does not decrease as n grows.
C22_BackoffCappedMonotone ==
    [][decision'.action = "retry" =>
         /\ decision'.delay <= retry_backoff_max
         /\ decision'.delay <= Pow2(decision'.retries)
         /\ \/ decision'.delay = Pow2(decision'.retries)
            \/ decision'.delay = retry_backoff_max
         /\ decision'.countdown \in 0 .. decision'.delay
         /\ (decision.action = "retry" /\ decision.retries <= decision'.retries)
               => decision.delay <= decision'.delay]_vars

\* C22 witness: a retry count at which the cap decides the delay
C22_Witness ==
    /\ decision.action = "retry"
    /\ Pow2(decision.retries) > retry_backoff_max
    /\ decision.delay = retry_backoff_max

-----------------------------------------------------------------------------
(* Further properties of the circuit breaker (SpecBreaker).                *)

\* what the four dicts of the breaker hold for the service (-1, "absent":
\* no entry)
ServiceEntry(self, s) ==
    [failures |-> Get(self.failures, s, -1),
     last_failure |-> Get(self.last_failure, s, -1),
     successes |-> Get(self.successes, s, -1),
     state |-> Get(self.state, s, "absent")]

\* C23: a step of a call on one service (gate, success, failure) and the
\* passing of time leave the state, failure count, success count and
\* last_failure of every other service as they were, and a call on a service
\* is rejected only when that service itself is Open within its own timeout.
C23_ServicesIndependent ==
    [][\A b \in Services :
         /\ event'.service # b
               => ServiceEntry(circuit_breaker', b) = ServiceEntry(circuit_breaker, b)
         /\ (GateStep(b) /\ event'.kind = "rejected")
               => (StateOf(b) = "open" /\ Elapsed(b) < recovery_timeout)]_vars

\* C23 witness: a call on one service has just been admitted while the other
\* service is Open within its recovery timeout.
C23_Witness ==
    \E a \in Services, b \in Services :
        /\ a # b
        /\ StateOf(a) = "open" /\ Elapsed(a) < recovery_timeout
        /\ FailureCount(a) = failure_threshold
        /\ event = [kind |-> "admitted", service |-> b, was |-> "closed"]
        /\ ServiceEntry(circuit_breaker, b).state = "absent"

\* C24: a step that brings the breaker of a service to Closed is the success
\* of a call that found it HalfOpen, and right after it get_state reports
\* state "closed" with failure_count 0.
C24_ClosedHasNoFailures ==
    [][\A s \in Services :
         (StateOf(s) # "closed" /\ StateOfNext(s) = "closed")
            => /\ SuccessStep(s) /\ StateOf(s) = "half_open"
               /\ get_state(circuit_breaker', s) =
                      [service |-> s, state |-> "closed",
                       failure_count |-> 0, last_failure |-> -1]]_vars

\* C24 witness: a breaker that had counted failure_threshold failures has
\* just been closed by a success and reports no failure.
C24_Witness ==
    \E s \in Services :
        /\ event = [kind |-> "success", service |-> s, was |-> "half_open"]
        /\ get_state(circuit_breaker, s).state = "closed"
        /\ get_state(circuit_breaker, s).failure_count = 0
        /\ streak[s] = 0

\* calls on the service that have completed
Completed(s) == invoked[s] - Cardinality({c \in Callers : inflight[c] = s})

\* every call on the service that has completed so far has failed
OnlyFailures(s) == streak[s] = Completed(s)

\* C25: on a service whose calls have all failed so far, after k failures
\* with k < failure_threshold the breaker is Closed, get_state reports
\* failure_count k and a call is admitted; the failure_threshold-th failure
\* opens it, with failure_count failure_threshold.
C25_OpensAtThreshold ==
    [][\A s \in Services :
         OnlyFailures(s) =>
            /\ streak[s] < failure_threshold
                  => /\ get_state(circuit_breaker, s).state = "closed"
                     /\ get_state(circuit_breaker, s).failure_count = streak[s]
                     /\ GateStep(s) => event'.kind = "admitted"
            /\ (FailureStep(s) /\ streak'[s] = failure_threshold)
                  => /\ StateOf(s) = "closed"
                     /\ get_state(circuit_breaker', s).state = "open"
                     /\ get_state(circuit_breaker', s).failure_count
                           = failure_threshold]_vars

\* C25 witness: the failure_threshold-th failure in a row on a fresh service
\* has just opened its breaker.
C25_Witness ==
    \E s \in Services :
        /\ event = [kind |-> "failure", service |-> s, was |-> "closed"]
        /\ OnlyFailures(s)
        /\ streak[s] = failure_threshold
        /\ get_state(circuit_breaker, s).state = "open"

-----------------------------------------------------------------------------
(* Progress of due reminders (SpecLive).                                   *)

\* the task is selected by a sweep at the time and its channel is one the
\* sweep enqueues for
DueAndSupported(id) ==
    /\ id \in DueTasks(now)
    /\ tasks[id].reminder_channel \in {"email", "sms", "telegram"}

\* C26 (as claimed): under fair scheduling of the sweep and of the workers,
\* every task that is due eventually has an idempotency record for its key.
C26_AsClaimed ==
    \A id \in TaskIds :
        DueAndSupported(id)
            ~> (RecordCount(TaskKey(id, tasks[id].reminder_at)) >= 1)

-----------------------------------------------------------------------------
(* Properties of the HTTP client (SpecHttp).                               *)

\* the attempts made so far all raised the exception
AllAttempts(exc) == \A i \in DOMAIN api.history : api.history[i] = exc

\* the attempts before the last one all raised a retried exception
FailedUpToLast ==
    \A i \in DOMAIN api.history :
        i < Len(api.history) => api.history[i] \in {"TimeoutException", "ConnectError"}

\* C27 (as claimed): a request whose attempts all raise TimeoutException
\* ends with the underlying request invoked max_attempts times and with
\* TimeoutException raised to the caller.
C27_AsClaimed ==
    (api.pc = "done" /\ api.history # << >> /\ AllAttempts("TimeoutException"))
        => (api.call_count = api.max_attempts /\ api.raised = "TimeoutException")

\* C28: an attempt that raises TimeoutException or ConnectError before the
\* third is followed by another attempt, and a request whose first success
\* is attempt k <= 3 returns the response with the underlying request
\* invoked exactly k times and nothing raised.
C28_RetriedUntilSuccess ==
    /\ (api.history # << >> /\ Len(api.history) < stop_after_attempt
          /\ api.history[Len(api.history)] \in {"TimeoutException", "ConnectError"}
          /\ FailedUpToLast)
         => (api.pc \in {"sleep", "attempt"} /\ api.raised = "None")
    /\ (api.pc = "done" /\ api.history # << >>
          /\ api.history[Len(api.history)] = "response")
         => /\ api.returned = "response" /\ api.raised = "None"
            /\ api.call_count = Len(api.history)
            /\ api.call_count <= stop_after_attempt
            /\ FailedUpToLast

\* C28 witness: the cases of test_retry_on_timeout and
\* test_retry_on_connect_error have each just returned a response
C28_Witness ==
    /\ api.pc = "done" /\ api.returned = "response"
    /\ api.history \in {<<"TimeoutException", "TimeoutException", "response">>,
                         <<"ConnectError", "response">>}
    /\ api.call_count = Len(api.history)

\* C29: an attempt that raises HTTPStatusError is the last one: the request
\* ends with HTTPStatusError raised to the caller, and when it is the first
\* attempt the underlying request has been invoked exactly once.
C29_StatusErrorNotRetried ==
    \A i \in DOMAIN api.history :
        api.history[i] = "HTTPStatusError"
            => /\ i = Len(api.history)
               /\ api.pc = "done"
               /\ api.raised = "HTTPStatusError"
               /\ api.call_count = i
               /\ api.returned = "None"

\* C29 witness: the case of test_no_retry_on_client_error, one attempt that
\* raised HTTPStatusError
C29_Witness ==
    /\ api.pc = "done"
    /\ api.history = <<"HTTPStatusError">>
    /\ api.call_count = 1
    /\ api.raised = "HTTPStatusError"

-----------------------------------------------------------------------------
(* The tasks table under the reminder tasks (SpecRetry).                   *)

\* the worker's sweep has just finished one turn of its loop
SweepTurn(w) ==
    /\ worker[w].pc = "sweep" /\ worker'[w].pc = "sweep"
    /\ Len(worker'[w].processed) = Len(worker[w].processed) + 1

\* C30: no step of check_and_send_reminders or send_reminder_notification,
\* whether it returns or raises, changes a row of the tasks table; a task a
\* sweep selects is selected by every later sweep, and what the sweep does
\* with it (skip or enqueue) is decided by the idempotency record alone.
C30_TasksNeverMutated ==
    [][/\ tasks' = tasks
       /\ DueTasks(now) \subseteq DueTasks(now')
       /\ \A w \in Workers :
             SweepTurn(w) =>
                LET id == Head(worker[w].todo)
                    turn == worker'[w].processed[Len(worker'[w].processed)]
                IN  /\ turn.task_id = id
                    /\ turn.status = "skipped"
                          <=> RecordCount(TaskKey(id, tasks[id].reminder_at)) = 1
                    /\ turn.status = "queued"
                          <=> RecordCount(TaskKey(id, tasks[id].reminder_at)) = 0]_vars

\* C30 witness: after a delivery that raised and a delivery that wrote its
\* record, the task is still selected and a later sweep has skipped it.
C30_Witness ==
    \E id \in DOMAIN tasks, w \in Workers :
        /\ db_errors > 0
        /\ RecordCount(TaskKey(id, tasks[id].reminder_at)) = 1
        /\ id \in DueTasks(now)
        /\ tasks[id].reminder_sent = "N"
        /\ worker[w].pc = "sweep"
        /\ worker[w].processed = <<[task_id |-> id, status |-> "skipped"]>>

-----------------------------------------------------------------------------
(* State invariants and frame of the circuit breaker (SpecBreaker).        *)

\* C31: a service whose breaker is Open or HalfOpen has at least
\* failure_threshold failures counted and a last_failure recorded; a failure
\* count below failure_threshold is found only with the breaker Closed.
C31_OpenHasThresholdFailures ==
    \A s \in Services :
        /\ StateOf(s) \in {"open", "half_open"}
              => /\ FailureCount(s) >= failure_threshold
                 /\ s \in DOMAIN circuit_breaker.last_failure
        /\ FailureCount(s) < failure_threshold => StateOf(s) = "closed"

\* C31 witness: a HalfOpen breaker that has counted one success still holds
\* the failures that opened it.
C31_Witness ==
    \E s \in Services :
        /\ StateOf(s) = "half_open"
        /\ Successes(s) = 1
        /\ FailureCount(s) = failure_threshold
        /\ s \in DOMAIN circuit_breaker.last_failure

\* C32: a call rejected with CircuitOpenError leaves the breaker as it was:
\* state, failure count, success count and last_failure of the service are
\* the same before and after, so the time left of the open window is too.
C32_RejectionChangesNothing ==
    [][\A s \in Services :
         (GateStep(s) /\ event'.kind = "rejected")
            => /\ ServiceEntry(circuit_breaker', s) = ServiceEntry(circuit_breaker, s)
               /\ circuit_breaker' = circuit_breaker
               /\ get_state(circuit_breaker', s) = get_state(circuit_breaker, s)]_vars

\* C32 witness: a call has just been rejected some time after the failure
\* that opened the breaker, and last_failure is still the time of that failure.
C32_Witness ==
    \E s \in Services :
        /\ event.kind = "rejected" /\ event.service = s
        /\ StateOf(s) = "open"
        /\ now = TickStep
        /\ circuit_breaker.last_failure[s] = 0

-----------------------------------------------------------------------------
(* Calls in flight while the breaker changes state (SpecBreaker).          *)

\* the step applies the outcome of the caller's call on the service
OutcomeOf(c, s) == inflight[c] = s /\ inflight'[c] = NoService

\* C33 (as claimed): the failure of a call that was admitted while the
\* breaker was Closed and completes after the breaker has opened leaves
\* last_failure where the opening failure put it, so the time at which the
\* breaker admits the next call is not postponed.
C33_AsClaimed ==
    [][\A c \in Callers, s \in Services :
         (OutcomeOf(c, s) /\ FailureStep(s)
             /\ admitted_in[c] = "closed" /\ StateOf(s) = "open")
            => /\ circuit_breaker'.last_failure[s] = circuit_breaker.last_failure[s]
               /\ RemainingRecovery(s)' = RemainingRecovery(s)]_vars

\* C34 (as claimed): the success of a call that was admitted while the
\* breaker was Closed and completes while it is HalfOpen does not add to
\* consecutive_successes and does not close the breaker.
C34_AsClaimed ==
    [][\A c \in Callers, s \in Services :
         (OutcomeOf(c, s) /\ SuccessStep(s)
             /\ admitted_in[c] = "closed" /\ StateOf(s) = "half_open")
            => /\ circuit_breaker'.successes = circuit_breaker.successes
               /\ StateOfNext(s) = "half_open"]_vars

-----------------------------------------------------------------------------
(* What a sweep does with a task (SpecLost, SpecReminder).                 *)

\* the step is one turn of the loop of the worker's sweep
SweepTaskStep(w) ==
    /\ worker[w].pc = "sweep"
    /\ worker[w].todo # << >>
    /\ worker'[w] # worker[w]
    /\ workers_lost' = workers_lost

\* the step puts no notification message on the queue
NothingEnqueued ==
    \A m \in BagToSet(queue') :
        m.task = "send_reminder_notification" => CopiesIn(m, queue') <= CopiesIn(m, queue)

\* C35 (as claimed): the turn of a sweep for a task whose key already has an
\* idempotency record enqueues nothing and reports the task as "skipped".
C35_AsClaimed ==
    [][\A w \in Workers :
         (SweepTaskStep(w)
             /\ RecordCount(TaskKey(Head(worker[w].todo),
                                    tasks[Head(worker[w].todo)].reminder_at)) >= 1)
            => /\ NothingEnqueued
               /\ worker'[w].pc = "sweep"
               /\ worker'[w].processed =
                     Append(worker[w].processed,
                            [task_id |-> Head(worker[w].todo), status |-> "skipped"])]_vars

\* C36 (as claimed): a turn of a sweep that reports its task "queued" has put
\* exactly one notification message with the task's key on the queue, and a
\* turn that reports "skipped" has put none.
C36_AsClaimed ==
    [][\A w \in Workers :
         (SweepTaskStep(w) /\ worker'[w].pc = "sweep")
            => LET id == Head(worker[w].todo)
                   key == TaskKey(id, tasks[id].reminder_at)
                   turn == worker'[w].processed[Len(worker'[w].processed)]
               IN  /\ turn.status = "queued"
                        => \E m \in BagToSet(queue') :
                              /\ m.task = "send_reminder_notification"
                              /\ m.idempotency_key = key
                              /\ queue' = queue (+) SetToBag({m})
                   /\ turn.status = "skipped" => queue' = queue]_vars

-----------------------------------------------------------------------------
(* Notification for a task id without a row (SpecDirect).                  *)

\* the step takes from the queue a notification message whose task id has no
\* row in the tasks table
TakesUnknown(m) ==
    /\ m.task = "send_reminder_notification"
    /\ m.task_id \notin DOMAIN tasks
    /\ CopiesIn(m, queue) > 0
    /\ CopiesIn(m, queue') < CopiesIn(m, queue)

\* C37: the notification task for a task id that has no row invokes no
\* channel send, writes no record and does not raise: the message leaves the
\* queue, nothing is sent again, no retry is scheduled and the task does not
\* fail; no row of the audit log and no send ever carries such a task id.
C37_UnknownTaskIsDropped ==
    [][/\ \A m \in BagToSet(queue) :
             TakesUnknown(m)
                => /\ queue' = queue (-) SetToBag({m})
                   /\ UNCHANGED <<audit_logs, sends, delivered, dead, worker>>
       /\ \A r \in BagToSet(audit_logs') : r.task_id \in DOMAIN tasks
       /\ \A m \in BagToSet(queue') \cup dead' :
             (m.task = "send_reminder_notification" /\ m.task_id \notin DOMAIN tasks)
                => m.retries = 0 /\ m \notin dead']_vars

\* C37 witness: the one direct call was made for the unknown task id and its
\* message has been consumed: nothing is queued, running, recorded or sent.
C37_Witness ==
    /\ direct_calls = 1
    /\ sweeps = 0
    /\ queue = EmptyBag
    /\ \A w \in Workers : worker[w].pc = "idle"
    /\ audit_logs = EmptyBag
    /\ sends = EmptyDict
    /\ dead = {}

-----------------------------------------------------------------------------
(* Appointment reminders: app/services/reminder_service.py. One run of     *)
(* ReminderService.process_all_reminders at a time; the names the module   *)
(* imports are taken to resolve as the module uses them.                   *)

\* REMINDER_24H, REMINDER_2H: hours before the appointment
REMINDER_24H == 24
REMINDER_2H == 2
Hour == 3600

\* bound of the appointment model
MaxRuns == 2     \* runs of process_all_reminders

AppointmentIds == {"a1", "a2"}
ReminderChannels == {"telegram", "sms", "email"}

\* a row of the appointments table with what is known of its customer:
\* "missing" (no customer row), "unreachable" (no chat id, phone or email),
\* "reachable" (all three)
AppointmentRow(status, start_time, reminder_sent, customer) ==
    [status |-> status, start_time |-> start_time,
     reminder_sent |-> reminder_sent, customer |-> customer]

StartTimes == {REMINDER_2H * Hour, REMINDER_24H * Hour}

RowsA1 ==
    {AppointmentRow(st, at, FALSE, cu) :
        st \in {"CONFIRMED", "CANCELLED"}, at \in StartTimes,
        cu \in {"missing", "unreachable", "reachable"}}
    \cup {AppointmentRow("CONFIRMED", REMINDER_2H * Hour, TRUE, "reachable")}

\* the appointments tables the model starts from: a1 alone with any of its
\* rows, or a1 two hours ahead beside a2 a day ahead
OfficeTables ==
    {Put(EmptyDict, "a1", r) : r \in RowsA1}
    \cup {Put(Put(EmptyDict, "a1",
                  AppointmentRow("CONFIRMED", REMINDER_2H * Hour, FALSE, "reachable")),
              "a2", AppointmentRow("CONFIRMED", REMINDER_24H * Hour, FALSE, "reachable"))}

\* get_upcoming_appointments(hours_ahead)
get_upcoming_appointments(appointments, t, hours_ahead) ==
    {id \in DOMAIN appointments :
        /\ appointments[id].status = "CONFIRMED"
        /\ appointments[id].start_time >= t
        /\ appointments[id].start_time <= t + hours_ahead * Hour
        /\ appointments[id].reminder_sent = FALSE}

\* what the channel functions hand back: send_telegram_message a dict (the
\* stub, or Telegram's reply with ok true or false), send_sms and send_email
\* the dict of the service method of that name; or the call raises
SendResults(channel) ==
    (IF channel = "telegram" THEN {"stub", "ok", "not_ok"} ELSE ChannelResults)
        \cup {"raise"}

\* the results that report a delivery
ReportsSuccess(result) == result \in {"ok", "sent"}

\* "if success:" on the value handed back: a dict with entries is true
truthy(result) == result \in {"stub", "ok", "not_ok", "sent", "error"}

InitOffice ==
    /\ now = 0
    /\ BreakerIdle
    /\ tasks = EmptyDict
    /\ audit_logs = EmptyBag
    /\ queue = EmptyBag
    /\ worker = [w \in Workers |-> Idle]
    /\ dead = {}
    /\ sends = EmptyDict
    /\ delivered = {}
    /\ sweeps = 0
    /\ db_errors = 0
    /\ workers_lost = 0
    /\ direct_calls = 0
    /\ decision = NoDecision
    /\ api = http_client
    /\ \E t \in OfficeTables :
          office = [NoOffice EXCEPT
                      !.appointments = t,
                      !.invocations = [id \in DOMAIN t |-> 0],
                      !.successes = [id \in DOMAIN t |-> 0]]

officeFrame ==
    <<tasks, audit_logs, queue, worker, dead, sends, delivered, sweeps,
      db_errors, workers_lost, direct_calls, decision, api>>

\* ReminderService.send_appointment_reminder: the appointments table as the
\* call leaves it, what the channel handed back, what the call returns, and
\* whether the session is left with a failed commit
send_appointment_reminder(appointments, id, outcome, commit_ok) ==
    LET unsent(result, broken) ==
            [appointments |-> appointments, result |-> result,
             returned |-> "False", broken |-> broken]
    IN  IF appointments[id].customer = "missing" THEN unsent("None", FALSE)
        ELSE IF appointments[id].customer = "unreachable" THEN unsent("None", FALSE)
        ELSE IF outcome = "raise" THEN unsent("raise", FALSE)
        ELSE IF truthy(outcome)
             THEN IF commit_ok
                  THEN [appointments |->
                            [appointments EXCEPT ![id].reminder_sent = TRUE],
                        result |-> outcome, returned |-> outcome, broken |-> FALSE]
                  ELSE unsent(outcome, TRUE)
             ELSE [appointments |-> appointments, result |-> outcome,
                   returned |-> outcome, broken |-> FALSE]

\* process_all_reminders(channel) begins: the appointments of the next 24 h
StartRun(channel) ==
    /\ office.run.pc = "idle"
    /\ office.runs < MaxRuns
    /\ \E o \in Orders(get_upcoming_appointments(office.appointments, now, REMINDER_24H)) :
          office' = [office EXCEPT
                       !.run = [pc |-> "24h", todo |-> o, channel |-> channel,
                                broken |-> FALSE],
                       !.runs = @ + 1]
    /\ UNCHANGED now
    /\ UNCHANGED officeFrame
    /\ UNCHANGED breakerVars

\* one turn of "for apt in appointments_24h" or "for apt in appointments_2h"
Remind(outcome, commit_ok) ==
    /\ office.run.pc \in {"24h", "2h"}
    /\ office.run.todo # << >>
    /\ outcome \in SendResults(office.run.channel)
    /\ LET id == Head(office.run.todo)
           apt == office.appointments[id]
       IN  IF office.run.pc = "2h" /\ apt.reminder_sent
           THEN \* "Skip if 24h reminder already sent"
                office' = [office EXCEPT !.run.todo = Tail(@)]
           ELSE IF office.run.broken
           THEN \* the session refuses the customer query: caught, False
                office' = [office EXCEPT
                             !.run.todo = Tail(@),
                             !.calls = @ + 1,
                             !.last = [id |-> id, result |-> "None", returned |-> "False",
                                       sent_before |-> apt.reminder_sent,
                                       sent_after |-> apt.reminder_sent]]
           ELSE LET r == send_appointment_reminder(office.appointments, id,
                                                   outcome, commit_ok)
                    channel_called == apt.customer = "reachable"
                IN  office' = [office EXCEPT
                                 !.appointments = r.appointments,
                                 !.run.todo = Tail(@),
                                 !.run.broken = r.broken,
                                 !.calls = @ + 1,
                                 !.last = [id |-> id, result |-> r.result,
                                           returned |-> r.returned,
                                           sent_before |-> apt.reminder_sent,
                                           sent_after |-> r.appointments[id].reminder_sent],
                                 !.invocations[id] = IF channel_called THEN @ + 1 ELSE @,
                                 !.successes[id] =
                                     IF channel_called /\ ReportsSuccess(outcome) THEN @ + 1 ELSE @]
    /\ UNCHANGED now
    /\ UNCHANGED officeFrame
    /\ UNCHANGED breakerVars

\* the 24 h loop is over: the appointments of the next 2 h; after a failed
\* commit the query raises and the run ends
NextPhase ==
    /\ office.run.pc = "24h"
    /\ office.run.todo = << >>
    /\ IF office.run.broken
       THEN office' = [office EXCEPT !.run = NoRun]
       ELSE \E o \in Orders(get_upcoming_appointments(office.appointments, now,
                                                     REMINDER_2H)) :
              office' = [office EXCEPT !.run.pc = "2h", !.run.todo = o]
    /\ UNCHANGED now
    /\ UNCHANGED officeFrame
    /\ UNCHANGED breakerVars

\* the 2 h loop is over: the run returns its counts
FinishRun ==
    /\ office.run.pc = "2h"
    /\ office.run.todo = << >>
    /\ office' = [office EXCEPT !.run = NoRun]
    /\ UNCHANGED now
    /\ UNCHANGED officeFrame
    /\ UNCHANGED breakerVars

\* between two runs the appointment a day ahead comes within two hours
OfficeTick ==
    /\ office.run.pc = "idle"
    /\ now = 0
    /\ now' = (REMINDER_24H - REMINDER_2H) * Hour
    /\ UNCHANGED office
    /\ UNCHANGED officeFrame
    /\ UNCHANGED breakerVars

NextOffice ==
    \/ \E channel \in ReminderChannels : StartRun(channel)
    \/ \E outcome \in ChannelResults \cup {"stub", "ok", "not_ok", "raise"},
          commit_ok \in BOOLEAN : Remind(outcome, commit_ok)
    \/ NextPhase
    \/ FinishRun
    \/ OfficeTick

SpecOffice == InitOffice /\ [][NextOffice]_vars

-----------------------------------------------------------------------------
(* Properties of the appointment reminders (SpecOffice).                   *)

\* C38 (as claimed): a call of send_appointment_reminder sets reminder_sent
\* only when the channel send reported a delivery; in every other case it
\* returns False and leaves reminder_sent as it was; and no step sets
\* reminder_sent of an appointment back to False.
C38_AsClaimed ==
    [][/\ office'.calls # office.calls
          => /\ (~ office'.last.sent_before /\ office'.last.sent_after)
                   => ReportsSuccess(office'.last.result)
             /\ ~ ReportsSuccess(office'.last.result)
                   => /\ office'.last.returned = "False"
                      /\ office'.last.sent_after = office'.last.sent_before
       /\ \A id \in DOMAIN office.appointments :
             office.appointments[id].reminder_sent
                => office'.appointments[id].reminder_sent]_vars

\* C39 (as claimed): over the runs of process_all_reminders an appointment
\* gets at most one send that reports a delivery, and a send is attempted
\* only for an appointment whose reminder_sent is False.
C39_AsClaimed ==
    /\ \A id \in DOMAIN office.appointments : office.successes[id] <= 1
    /\ office.calls > 0 => ~ office.last.sent_before

====
